---- MODULE Spec2Model ----
(***************************************************************************)
(* A model of lib/SILPasses/InOutDeshadowing.cpp: the pass that removes    *)
(* the alloc_stack shadow of an @inout argument.                           *)
(*                                                                         *)
(* A function is one entry block.  A value base is a number: 1 and 2 are   *)
(* the entry block's arguments, 3 and 4 the two alloc_stack instructions,  *)
(* higher numbers the other instructions, in block order.  A SILValue is   *)
(* <<base, result number>>; an Operand is <<user, operand number>>.        *)
(***************************************************************************)
EXTENDS Integers, Sequences, FiniteSets, TLC

\* Longest generated function body, not counting alloc_stack/dealloc_stack.
MaxBody == 3

\* nullptr: no instruction.
Null == 0

\* The numbering of the value bases.
Id == [p |-> 1, q |-> 2, A |-> 3, B |-> 4, body |-> 5]

Args == {Id.p, Id.q}
AllocA == Id.A
AllocB == Id.B
FirstBodyId == Id.body

\* The values the generated bodies are written with.  MU stands for the
\* result of the nearest mark_uninitialized earlier in the block.
P  == <<Id.p, 0>>
Q  == <<Id.q, 0>>
A0 == <<AllocA, 0>>
A1 == <<AllocA, 1>>
B0 == <<AllocB, 0>>
B1 == <<AllocB, 1>>
MU == <<0, 0>>

Inst(k, o, l) == [kind |-> k, ops |-> o, loc |-> l]

\* The instructions a generated body is made of.  loc is the provenance of a
\* copy_addr: "auto" (autogenerated), "file" (a SIL-file location) or "user".
\* A store is given its address operand only; what it stores is a constant.
Menu ==
  { Inst("copy_addr", <<P, A1>>, "auto"),
    Inst("copy_addr", <<A1, P>>, "auto"),
    Inst("copy_addr", <<P, A1>>, "user"),
    Inst("copy_addr", <<P, A1>>, "file"),
    Inst("copy_addr", <<A1, B1>>, "auto"),
    Inst("copy_addr", <<P, B1>>, "auto"),
    Inst("copy_addr", <<A1, A1>>, "auto"),
    Inst("copy_addr", <<Q, A1>>, "auto"),
    Inst("copy_addr", <<P, MU>>, "auto"),
    Inst("mark_uninitialized", <<A1>>, "user"),
    Inst("load", <<A1>>, "user"),
    Inst("store", <<A1>>, "user") }

Conventions == {"inout", "in"}

\* ------------------------------------------------------------------------
\* Building a function: instructions are created in block order, and every
\* operand is put at the head of the use list of the value it references.

Max(S) == CHOOSE x \in S : \A y \in S : y <= x

LastMUI(body, i) ==
  LET S == {j \in 1..(i - 1) : body[j].kind = "mark_uninitialized"}
  IN  IF S = {} THEN 0 ELSE Max(S)

WellFormedBody(body) ==
  \A i \in 1..Len(body) : \A s \in 1..Len(body[i].ops) :
    body[i].ops[s] = MU => LastMUI(body, i) # 0

Resolve(body, i) ==
  [s \in 1..Len(body[i].ops) |->
     IF body[i].ops[s] = MU
       THEN <<FirstBodyId + LastMUI(body, i) - 1, 0>>
       ELSE body[i].ops[s]]

References(body, a) ==
  \E i \in 1..Len(body) : \E s \in 1..Len(body[i].ops) : body[i].ops[s][1] = a

\* dealloc_stack instructions close the block, the later allocation first.
DeallocId(a) == FirstBodyId + MaxBody + (AllocB - a)

BlockInsts(body) ==
  LET allocs == {a \in {AllocA, AllocB} : References(body, a)}
      ids == allocs \cup {FirstBodyId + i - 1 : i \in 1..Len(body)}
                    \cup {DeallocId(a) : a \in allocs}
  IN  [id \in ids |->
         IF id \in allocs THEN Inst("alloc_stack", <<>>, "user")
         ELSE IF id < FirstBodyId + MaxBody
           THEN Inst(body[id - FirstBodyId + 1].kind,
                     Resolve(body, id - FirstBodyId + 1),
                     body[id - FirstBodyId + 1].loc)
         ELSE Inst("dealloc_stack",
                   <<(IF id = DeallocId(AllocA) THEN A0 ELSE B0)>>, "user")]

RECURSIVE InsertOperands(_, _, _, _)
InsertOperands(U, id, ops, s) ==
  IF s > Len(ops) THEN U
  ELSE InsertOperands([U EXCEPT ![ops[s][1]] = <<<<id, s - 1>>>> \o @],
                      id, ops, s + 1)

RECURSIVE UsesUpTo(_, _)
UsesUpTo(I, k) ==
  IF k = 0 THEN [v \in Args \cup DOMAIN I |-> <<>>]
  ELSE IF k \in DOMAIN I THEN InsertOperands(UsesUpTo(I, k - 1), k, I[k].ops, 1)
  ELSE UsesUpTo(I, k - 1)

MaxId == FirstBodyId + MaxBody + 1

BuildFn(body) ==
  LET I == BlockInsts(body) IN [insts |-> I, uses |-> UsesUpTo(I, MaxId)]

Bodies ==
  {b \in UNION {[1..n -> Menu] : n \in 0..MaxBody} : WellFormedBody(b)}

EmptyFn == [insts |-> << >>, uses |-> << >>]

\* ------------------------------------------------------------------------
\* The IR operations the pass calls.

getUser(UI) == UI[1]
getOperandNumber(UI) == UI[2]
get(F, UI) == F.insts[UI[1]].ops[UI[2] + 1]
getResultNumber(V) == V[2]
getSrc(CAI) == CAI.ops[1]
getDest(CAI) == CAI.ops[2]
isAutoGenerated(loc) == loc = "auto"
isSILFileLocation(loc) == loc = "file"
isIndirectInOut(c) == c = "inout"
\* An emptiness test that is off by one.
use_empty_OneLeft(F, v) == Len(F.uses[v]) <= 1

use_empty(F, v) == F.uses[v] = << >>
use_begin(F, v) == Head(F.uses[v])

IsInst(F, V, k) == V[1] \in DOMAIN F.insts /\ F.insts[V[1]].kind = k

\* SILInstruction::eraseFromParent: the instruction leaves the block and its
\* operands leave the use lists of the values they reference.
eraseFromParent(F, i) ==
  [insts |-> [j \in DOMAIN F.insts \ {i} |-> F.insts[j]],
   uses  |-> [v \in DOMAIN F.uses \ {i} |->
                SelectSeq(F.uses[v], LAMBDA u : u[1] # i)]]

\* Operand::set: leave the old value's use list, enter the new one's at
\* its head.
set(F, UI, V) ==
  LET old == get(F, UI)[1]
      U1 == [F.uses EXCEPT ![old] = SelectSeq(@, LAMBDA u : u # UI)]
  IN  [insts |-> [F.insts EXCEPT ![UI[1]].ops[UI[2] + 1] = V],
       uses  |-> [U1 EXCEPT ![V[1]] = <<UI>> \o @]]

\* The recognizer without the provenance gate of line 94.
isCopyToOrFromStack_NoGate(F, UI) ==
  LET CAI == F.insts[getUser(UI)]
      Other == IF getOperandNumber(UI) = 0 THEN getDest(CAI) ELSE getSrc(CAI)
      OtherOp == IF IsInst(F, Other, "mark_uninitialized")
                   THEN F.insts[Other[1]].ops[1] ELSE Other
  IN  IF CAI.kind # "copy_addr" THEN Null
      ELSE IF IsInst(F, OtherOp, "alloc_stack") THEN OtherOp[1]
      ELSE Null

\* isCopyToOrFromStack, lines 87-107.
isCopyToOrFromStack(F, UI) ==
  LET CAI == F.insts[getUser(UI)]
      Other == IF getOperandNumber(UI) = 0 THEN getDest(CAI) ELSE getSrc(CAI)
      OtherOp == IF IsInst(F, Other, "mark_uninitialized")
                   THEN F.insts[Other[1]].ops[1] ELSE Other
  IN  IF CAI.kind # "copy_addr" THEN Null
      ELSE IF ~isAutoGenerated(CAI.loc) /\ ~isSILFileLocation(CAI.loc) THEN Null
      ELSE IF IsInst(F, OtherOp, "alloc_stack") THEN OtherOp[1]
      ELSE Null

\* A scan that takes the stack allocation of any copy_addr it meets.
RECURSIVE ScanUses_Ungated(_, _, _)
ScanUses_Ungated(F, useList, k) ==
  IF k > Len(useList) THEN Null
  ELSE IF isCopyToOrFromStack_NoGate(F, useList[k]) # Null
    THEN isCopyToOrFromStack_NoGate(F, useList[k])
  ELSE ScanUses_Ungated(F, useList, k + 1)

\* A scan that keeps going and takes the last use the recognizer matches.
RECURSIVE ScanUses_Last(_, _, _)
ScanUses_Last(F, useList, k) ==
  IF k > Len(useList) THEN Null
  ELSE IF ScanUses_Last(F, useList, k + 1) # Null
    THEN ScanUses_Last(F, useList, k + 1)
  ELSE isCopyToOrFromStack(F, useList[k])

\* The loop of processInOutValue, lines 121-126: the allocation of the first
\* use the recognizer matches, or Null.
RECURSIVE ScanUses(_, _, _)
ScanUses(F, useList, k) ==
  IF k > Len(useList) THEN Null
  ELSE IF isCopyToOrFromStack(F, useList[k]) # Null
    THEN isCopyToOrFromStack(F, useList[k])
  ELSE ScanUses(F, useList, k + 1)

\* ------------------------------------------------------------------------
\* State.

VARIABLES
  Fn,                 \* the function body: [insts, uses]
  FnEmpty,            \* Fn.empty(): the function is a declaration
  convs,              \* getInterfaceParameters(): convention of each parameter
  pc,                 \* where control is
  caller,             \* which entry point runs the parameter loop
  arg,                \* the loop index of the entry point
  InOutArg,           \* processInOutValue's and promoteShadow's argument
  Alloc,              \* promoteShadow's allocation
  ret,                \* what processInOutValue returned
  NumShadowsRemoved,
  NumShadowsKept,
  ub,                 \* the entry block of a function without one was taken
  run,                \* 1 in the first run of the pass, 2 in the second
  orig,               \* history: Fn at the start
  pre,                \* history: promoteShadow's call in the current call of
                      \* processInOutValue: [F, Alloc, InOutArg]
  runStart,           \* history: the counters when the run began
  promoted,           \* history: arguments promoteShadow was called for, this run
  first               \* history: what the first run left: [Fn, removed, kept]

vars == <<Fn, FnEmpty, convs, pc, caller, arg, InOutArg, Alloc, ret,
          NumShadowsRemoved, NumShadowsKept, ub, run, orig, pre, runStart,
          promoted, first>>

ir == <<Fn, FnEmpty, convs>>
hist == <<orig, pre, runStart, promoted, first>>
counters == <<NumShadowsRemoved, NumShadowsKept>>
frame == <<InOutArg, Alloc, ret>>

NumParams == Cardinality(Args)

NoCall == [F |-> EmptyFn, Alloc |-> Null, InOutArg |-> Null]

InitCommon ==
  /\ FnEmpty \in BOOLEAN
  /\ Fn \in IF FnEmpty THEN {EmptyFn} ELSE {BuildFn(b) : b \in Bodies}
  /\ convs \in [Args -> Conventions]
  /\ arg = 0
  /\ InOutArg = Null
  /\ Alloc = Null
  /\ ret = FALSE
  /\ NumShadowsRemoved = 0
  /\ NumShadowsKept = 0
  /\ ub = FALSE
  /\ run = 1
  /\ orig = Fn
  /\ pre = NoCall
  /\ runStart = [removed |-> 0, kept |-> 0]
  /\ promoted = {}
  /\ first = [Fn |-> Fn, removed |-> 0, kept |-> 0]

Init == InitCommon /\ caller = "module" /\ pc = "M_for"

\* ------------------------------------------------------------------------
\* performInOutDeshadowing, lines 142-166.

\* line 146: if (Fn.empty()) continue;
Module_SkipEmpty ==
  /\ pc = "M_for" /\ FnEmpty
  /\ pc' = "done"
  /\ UNCHANGED <<ir, caller, arg, frame, counters, ub, run, hist>>

\* lines 147-153: take the entry block, start the parameter loop.
Module_Enter ==
  /\ pc = "M_for" /\ ~FnEmpty
  /\ pc' = "M_args" /\ arg' = 0
  /\ UNCHANGED <<ir, caller, frame, counters, ub, run, hist>>

\* line 153: arg == e ends the loop.
Module_ArgsEnd ==
  /\ pc = "M_args" /\ arg = NumParams
  /\ pc' = "done"
  /\ UNCHANGED <<ir, caller, arg, frame, counters, ub, run, hist>>

\* line 154: a parameter that is not indirect in-out is passed over.
Module_ArgSkip ==
  /\ pc = "M_args" /\ arg # NumParams /\ ~isIndirectInOut(convs[arg + 1])
  /\ arg' = arg + 1
  /\ UNCHANGED <<ir, pc, caller, frame, counters, ub, run, hist>>

\* line 159: processInOutValue(EntryBlock.getBBArgs()[arg]) is called.
Module_ArgCall ==
  /\ pc = "M_args" /\ arg # NumParams /\ isIndirectInOut(convs[arg + 1])
  /\ pc' = "scan" /\ InOutArg' = arg + 1
  /\ pre' = NoCall
  /\ UNCHANGED <<ir, caller, arg, Alloc, ret, counters, ub, run, orig,
                 runStart, promoted, first>>

\* The counters of lines 159-163 exchanged.
Module_Counter_Exchanged ==
  /\ pc = "M_ret"
  /\ IF ret THEN /\ NumShadowsKept' = NumShadowsKept + 1
                 /\ UNCHANGED NumShadowsRemoved
            ELSE /\ NumShadowsRemoved' = NumShadowsRemoved + 1
                 /\ UNCHANGED NumShadowsKept
  /\ arg' = arg + 1 /\ pc' = "M_args"
  /\ UNCHANGED <<ir, caller, frame, ub, run, hist>>

\* lines 159-163: one counter is incremented after the call returns.
Module_Counter ==
  /\ pc = "M_ret"
  /\ IF ret THEN /\ NumShadowsRemoved' = NumShadowsRemoved + 1
                 /\ UNCHANGED NumShadowsKept
            ELSE /\ NumShadowsKept' = NumShadowsKept + 1
                 /\ UNCHANGED NumShadowsRemoved
  /\ arg' = arg + 1 /\ pc' = "M_args"
  /\ UNCHANGED <<ir, caller, frame, ub, run, hist>>

\* ------------------------------------------------------------------------
\* processInOutValue, lines 117-136.

RetLabel == IF caller = "module" THEN "M_ret" ELSE "U_ret"

\* lines 121-125: the first use the recognizer matches starts the promoter.
processInOutValue_Promote ==
  /\ pc = "scan"
  /\ ScanUses(Fn, Fn.uses[InOutArg], 1) # Null
  /\ Alloc' = ScanUses(Fn, Fn.uses[InOutArg], 1)
  /\ pc' = "promote"
  /\ pre' = [F |-> Fn, Alloc |-> ScanUses(Fn, Fn.uses[InOutArg], 1),
             InOutArg |-> InOutArg]
  /\ promoted' = promoted \cup {InOutArg}
  /\ UNCHANGED <<ir, caller, arg, InOutArg, ret, counters, ub, run, orig,
                 runStart, first>>

\* line 135: no use matched.
processInOutValue_Fail ==
  /\ pc = "scan"
  /\ ScanUses(Fn, Fn.uses[InOutArg], 1) = Null
  /\ ret' = FALSE
  /\ pc' = RetLabel
  /\ UNCHANGED <<ir, caller, arg, InOutArg, Alloc, counters, ub, run, hist>>

\* ------------------------------------------------------------------------
\* promoteShadow, lines 45-76.  One action per path through the loop body.

Use == use_begin(Fn, Alloc)
User == getUser(Use)

\* lines 56-59: a use of result 0; the user is erased.
promoteShadow_EraseLifecycle ==
  /\ pc = "promote" /\ ~use_empty(Fn, Alloc)
  /\ getResultNumber(get(Fn, Use)) = 0
  /\ Fn' = eraseFromParent(Fn, User)
  /\ UNCHANGED <<FnEmpty, convs, pc, caller, arg, frame, counters, ub, run,
                 hist>>

\* The test of line 64 with its second comparison forgotten.
IsCopyWithArg_SrcOnly(F, u, a) ==
  /\ F.insts[u].kind = "copy_addr"
  /\ getSrc(F.insts[u]) = <<a, 0>>

IsCopyWithArg(F, u, a) ==
  /\ F.insts[u].kind = "copy_addr"
  /\ (getSrc(F.insts[u]) = <<a, 0>> \/ getDest(F.insts[u]) = <<a, 0>>)

\* lines 63-68: a copy_addr whose source or destination is the argument.
promoteShadow_EraseCopy ==
  /\ pc = "promote" /\ ~use_empty(Fn, Alloc)
  /\ getResultNumber(get(Fn, Use)) # 0
  /\ IsCopyWithArg(Fn, User, InOutArg)
  /\ Fn' = eraseFromParent(Fn, User)
  /\ UNCHANGED <<FnEmpty, convs, pc, caller, arg, frame, counters, ub, run,
                 hist>>

\* Line 72 treating the use like the copies of lines 63-68: the user goes.
promoteShadow_Remap_Erases ==
  /\ pc = "promote" /\ ~use_empty(Fn, Alloc)
  /\ getResultNumber(get(Fn, Use)) # 0
  /\ ~IsCopyWithArg(Fn, User, InOutArg)
  /\ Fn' = eraseFromParent(Fn, User)
  /\ UNCHANGED <<FnEmpty, convs, pc, caller, arg, frame, counters, ub, run,
                 hist>>

\* Line 72 setting the use to the allocation's address again.
promoteShadow_Remap_ToAlloc ==
  /\ pc = "promote" /\ ~use_empty(Fn, Alloc)
  /\ getResultNumber(get(Fn, Use)) # 0
  /\ ~IsCopyWithArg(Fn, User, InOutArg)
  /\ Fn' = set(Fn, Use, <<Alloc, 1>>)
  /\ UNCHANGED <<FnEmpty, convs, pc, caller, arg, frame, counters, ub, run,
                 hist>>

\* Line 72 replacing the allocation in every operand slot of the user.
promoteShadow_Remap_AllSlots ==
  /\ pc = "promote" /\ ~use_empty(Fn, Alloc)
  /\ getResultNumber(get(Fn, Use)) # 0
  /\ ~IsCopyWithArg(Fn, User, InOutArg)
  /\ Fn' = IF Len(Fn.insts[User].ops) = 2
             THEN set(set(Fn, <<User, 0>>, <<InOutArg, 0>>),
                      <<User, 1>>, <<InOutArg, 0>>)
             ELSE set(Fn, Use, <<InOutArg, 0>>)
  /\ UNCHANGED <<FnEmpty, convs, pc, caller, arg, frame, counters, ub, run,
                 hist>>

\* Line 72 going on through a redirected mark_uninitialized: a copy_addr of
\* the wrapper with the argument is erased as well.
promoteShadow_Remap_ThroughWrapper ==
  /\ pc = "promote" /\ ~use_empty(Fn, Alloc)
  /\ getResultNumber(get(Fn, Use)) # 0
  /\ ~IsCopyWithArg(Fn, User, InOutArg)
  /\ Fn' = IF /\ Fn.insts[User].kind = "mark_uninitialized"
               /\ ~use_empty(Fn, User)
               /\ IsCopyWithArg(Fn, getUser(use_begin(Fn, User)), InOutArg)
             THEN eraseFromParent(set(Fn, Use, <<InOutArg, 0>>),
                                  getUser(use_begin(Fn, User)))
             ELSE set(Fn, Use, <<InOutArg, 0>>)
  /\ UNCHANGED <<FnEmpty, convs, pc, caller, arg, frame, counters, ub, run,
                 hist>>

\* line 72: any other use is pointed at the argument.
promoteShadow_Remap ==
  /\ pc = "promote" /\ ~use_empty(Fn, Alloc)
  /\ getResultNumber(get(Fn, Use)) # 0
  /\ ~IsCopyWithArg(Fn, User, InOutArg)
  /\ Fn' = set(Fn, Use, <<InOutArg, 0>>)
  /\ UNCHANGED <<FnEmpty, convs, pc, caller, arg, frame, counters, ub, run,
                 hist>>

\* line 75, and line 125: the allocation is erased and true is returned.
promoteShadow_EraseAlloc ==
  /\ pc = "promote" /\ use_empty(Fn, Alloc)
  /\ Fn' = eraseFromParent(Fn, Alloc)
  /\ ret' = TRUE
  /\ pc' = RetLabel
  /\ UNCHANGED <<FnEmpty, convs, caller, arg, InOutArg, Alloc, counters, ub,
                 run, hist>>

\* ------------------------------------------------------------------------
\* InOutDeshadowing::runOnFunction, lines 172-191.

\* line 173: F.front() of a function that has a block.
Unit_Front ==
  /\ pc = "U_front" /\ ~FnEmpty
  /\ pc' = "U_args" /\ arg' = 0
  /\ UNCHANGED <<ir, caller, frame, counters, ub, run, hist>>

\* line 173: F.front() of a function with no block is undefined.
Unit_FrontOfEmpty ==
  /\ pc = "U_front" /\ FnEmpty
  /\ ub' = TRUE
  /\ pc' = "U_args" /\ arg' = 0
  /\ UNCHANGED <<ir, caller, frame, counters, run, hist>>

\* line 179: arg == e ends the loop.
Unit_ArgsEnd ==
  /\ pc = "U_args" /\ arg = NumParams
  /\ pc' = "done"
  /\ UNCHANGED <<ir, caller, arg, frame, counters, ub, run, hist>>

\* line 181: a parameter that is not indirect in-out is passed over.
Unit_ArgSkip ==
  /\ pc = "U_args" /\ arg # NumParams /\ ~isIndirectInOut(convs[arg + 1])
  /\ arg' = arg + 1
  /\ UNCHANGED <<ir, pc, caller, frame, counters, ub, run, hist>>

\* line 185: processInOutValue(EntryBlock.getBBArgs()[arg]) is called.
Unit_ArgCall ==
  /\ pc = "U_args" /\ arg # NumParams /\ isIndirectInOut(convs[arg + 1])
  /\ ~ub
  /\ pc' = "scan" /\ InOutArg' = arg + 1
  /\ pre' = NoCall
  /\ UNCHANGED <<ir, caller, arg, Alloc, ret, counters, ub, run, orig,
                 runStart, promoted, first>>

\* line 185 on the block that does not exist: the call reads whatever is
\* there; it returns either value or the process dies.
Unit_ArgCallUndefined ==
  /\ pc = "U_args" /\ arg # NumParams /\ isIndirectInOut(convs[arg + 1])
  /\ ub
  /\ \E outcome \in {"true", "false", "crash"} :
       IF outcome = "crash"
         THEN pc' = "crashed" /\ UNCHANGED ret
         ELSE pc' = "U_ret" /\ ret' = (outcome = "true")
  /\ UNCHANGED <<ir, caller, arg, InOutArg, Alloc, counters, ub, run, hist>>

\* lines 185-189: one counter is incremented after the call returns.
Unit_Counter ==
  /\ pc = "U_ret"
  /\ IF ret THEN /\ NumShadowsRemoved' = NumShadowsRemoved + 1
                 /\ UNCHANGED NumShadowsKept
            ELSE /\ NumShadowsKept' = NumShadowsKept + 1
                 /\ UNCHANGED NumShadowsRemoved
  /\ arg' = arg + 1 /\ pc' = "U_args"
  /\ UNCHANGED <<ir, caller, frame, ub, run, hist>>

\* ------------------------------------------------------------------------
\* After the first run of the module driver, either the pass is run again
\* over the function it has rewritten, or the transform unit is run over the
\* function as it was at the start.

EndOfRun == [Fn |-> Fn,
             removed |-> NumShadowsRemoved - runStart.removed,
             kept |-> NumShadowsKept - runStart.kept]

RunAgain ==
  /\ pc = "done" /\ run = 1
  /\ run' = 2
  /\ pc' = "M_for"
  /\ arg' = 0
  /\ first' = EndOfRun
  /\ runStart' = [removed |-> NumShadowsRemoved, kept |-> NumShadowsKept]
  /\ promoted' = {}
  /\ UNCHANGED <<ir, caller, frame, counters, ub, orig, pre>>

RunUnit ==
  /\ pc = "done" /\ run = 1
  /\ run' = 2
  /\ caller' = "unit"
  /\ pc' = "U_front"
  /\ arg' = 0
  /\ Fn' = orig
  /\ first' = EndOfRun
  /\ runStart' = [removed |-> NumShadowsRemoved, kept |-> NumShadowsKept]
  /\ promoted' = {}
  /\ pre' = NoCall
  /\ UNCHANGED <<FnEmpty, convs, frame, counters, ub, orig>>

Next ==
  \/ Module_SkipEmpty
  \/ Module_Enter
  \/ Module_ArgsEnd
  \/ Module_ArgSkip
  \/ Module_ArgCall
  \/ Module_Counter
  \/ Unit_Front
  \/ Unit_FrontOfEmpty
  \/ Unit_ArgsEnd
  \/ Unit_ArgSkip
  \/ Unit_ArgCall
  \/ Unit_ArgCallUndefined
  \/ Unit_Counter
  \/ processInOutValue_Promote
  \/ processInOutValue_Fail
  \/ promoteShadow_EraseLifecycle
  \/ promoteShadow_EraseCopy
  \/ promoteShadow_Remap
  \/ promoteShadow_EraseAlloc
  \/ RunAgain
  \/ RunUnit

Spec == Init /\ [][Next]_vars

\* One run of the module driver.  The pass is straight-line code: a step
\* that can be taken is taken.
NextOnce ==
  \/ Module_SkipEmpty
  \/ Module_Enter
  \/ Module_ArgsEnd
  \/ Module_ArgSkip
  \/ Module_ArgCall
  \/ Module_Counter
  \/ processInOutValue_Promote
  \/ processInOutValue_Fail
  \/ promoteShadow_EraseLifecycle
  \/ promoteShadow_EraseCopy
  \/ promoteShadow_Remap
  \/ promoteShadow_EraseAlloc

FairSpec == Init /\ [][NextOnce]_vars /\ WF_vars(NextOnce)

\* ------------------------------------------------------------------------
\* Properties.

Range(f) == {f[x] : x \in DOMAIN f}

Live(F) == DOMAIN F.insts

\* The use lists are the operands: a sanity condition of the model.
UseListsConsistent ==
  \A v \in DOMAIN Fn.uses :
    /\ \A k \in 1..Len(Fn.uses[v]) :
         /\ Fn.uses[v][k][1] \in Live(Fn)
         /\ get(Fn, Fn.uses[v][k])[1] = v
         /\ \A l \in 1..Len(Fn.uses[v]) : Fn.uses[v][k] = Fn.uses[v][l] => k = l
    /\ \A i \in Live(Fn) : \A s \in 1..Len(Fn.insts[i].ops) :
         Fn.insts[i].ops[s][1] = v => <<i, s - 1>> \in Range(Fn.uses[v])

\* The call processInOutValue(InOutArg) has called promoteShadow(pre.Alloc,
\* pre.InOutArg) on the function pre.F, and that call has returned.
Returned == pre.Alloc # Null /\ pre.Alloc \notin Live(Fn)

NoOperandReferences(F, a) ==
  \A i \in Live(F) : \A s \in 1..Len(F.insts[i].ops) : F.insts[i].ops[s][1] # a

\* A use of the allocation's address that is not a copy to or from the
\* argument, in the function promoteShadow was called on.
RealUse(UI) ==
  /\ getResultNumber(get(pre.F, UI)) # 0
  /\ ~IsCopyWithArg(pre.F, getUser(UI), pre.InOutArg)

SelfCopy(UI) ==
  /\ pre.F.insts[getUser(UI)].kind = "copy_addr"
  /\ getSrc(pre.F.insts[getUser(UI)])[1] = pre.Alloc
  /\ getDest(pre.F.insts[getUser(UI)])[1] = pre.Alloc

NowReferencesArg(UI) ==
  getUser(UI) \in Live(Fn) /\ get(Fn, UI) = <<pre.InOutArg, 0>>

AllocUses == IF pre.Alloc = Null THEN {} ELSE Range(pre.F.uses[pre.Alloc])

\* C1 as stated: after promoteShadow returns no operand references the
\* erased allocation, and every use of its address that was not a copy
\* to/from the in-out argument (nor a result-0 use) references the argument.
C1_AsStated ==
  Returned =>
    /\ NoOperandReferences(Fn, pre.Alloc)
    /\ \A UI \in AllocUses : RealUse(UI) => NowReferencesArg(UI)

\* C1, amended: the same, except that a copy_addr with the allocation as both
\* source and destination is erased instead of redirected.
C1_Promoted ==
  Returned =>
    /\ NoOperandReferences(Fn, pre.Alloc)
    /\ \A UI \in AllocUses :
         RealUse(UI) =>
           IF SelfCopy(UI) THEN getUser(UI) \notin Live(Fn)
                           ELSE NowReferencesArg(UI)

C1_Witness ==
  /\ Returned
  /\ \E UI \in AllocUses :
       RealUse(UI) /\ ~SelfCopy(UI) /\ NowReferencesArg(UI)
  /\ \E UI \in AllocUses : RealUse(UI) /\ SelfCopy(UI)

\* ------------------------------------------------------------------------
\* Executing a block: what copy_addr, load and store do to storage.  The
\* in-out arguments point at distinct storage holding distinct values.

RECURSIVE Storage(_, _)
Storage(F, V) ==
  IF IsInst(F, V, "mark_uninitialized") THEN Storage(F, F.insts[V[1]].ops[1])
  ELSE V[1]

InitialMemory == [l \in Args \cup {AllocA, AllocB} |->
                    IF l = Id.p THEN "vp" ELSE IF l = Id.q THEN "vq"
                    ELSE "uninit"]

Step(F, E, id) ==
  LET I == F.insts[id] IN
  CASE I.kind = "copy_addr" ->
         [E EXCEPT !.mem[Storage(F, getDest(I))] = E.mem[Storage(F, getSrc(I))],
                   !.undef = @ \/ E.mem[Storage(F, getSrc(I))] = "uninit"]
    [] I.kind = "load" ->
         [E EXCEPT !.loads = @ @@ (id :> E.mem[Storage(F, I.ops[1])]),
                   !.undef = @ \/ E.mem[Storage(F, I.ops[1])] = "uninit"]
    [] I.kind = "store" ->
         [E EXCEPT !.mem[Storage(F, I.ops[1])] = "stored"]
    [] I.kind \in {"alloc_stack", "dealloc_stack"} ->
         [E EXCEPT !.mem[IF I.kind = "alloc_stack" THEN id ELSE I.ops[1][1]]
                      = "uninit"]
    [] OTHER -> E

RECURSIVE ExecUpTo(_, _)
ExecUpTo(F, k) ==
  IF k = 0 THEN [mem |-> InitialMemory, loads |-> << >>, undef |-> FALSE]
  ELSE IF k \in Live(F) THEN Step(F, ExecUpTo(F, k - 1), k)
  ELSE ExecUpTo(F, k - 1)

Exec(F) == ExecUpTo(F, MaxId)

\* C2: the rewritten body leaves the same contents in the in-out argument's
\* storage, and loads the same value at every remaining load, as the body
\* promoteShadow was called on (when that body reads no uninitialized
\* storage).
C2_SemanticsPreserved ==
  (Returned /\ ~Exec(pre.F).undef) =>
    /\ Exec(Fn).mem[pre.InOutArg] = Exec(pre.F).mem[pre.InOutArg]
    /\ \A l \in DOMAIN Exec(Fn).loads :
         Exec(Fn).loads[l] = Exec(pre.F).loads[l]

\* A copy_addr that is neither tagged autogenerated nor at a SIL-file
\* location: the recognizer's gate (line 94) rejects it.
UserWritten(F, i) ==
  /\ F.insts[i].kind = "copy_addr"
  /\ ~isAutoGenerated(F.insts[i].loc)
  /\ ~isSILFileLocation(F.insts[i].loc)

RECURSIVE FirstMatchingUse(_, _, _)
FirstMatchingUse(F, useList, k) ==
  IF k > Len(useList) THEN Null
  ELSE IF isCopyToOrFromStack(F, useList[k]) # Null THEN getUser(useList[k])
  ELSE FirstMatchingUse(F, useList, k + 1)

\* C3: a copy_addr that is not tagged autogenerated is never erased and never
\* makes processInOutValue start a promotion.
C3_ProvenanceGate ==
  [][ /\ \A i \in Live(Fn) : UserWritten(Fn, i) => i \in Live(Fn')
      /\ (pc = "scan" /\ pc' = "promote") =>
           ~UserWritten(Fn, FirstMatchingUse(Fn, Fn.uses[InOutArg], 1)) ]_vars

NoUseMatched(F, a) ==
  \A UI \in Range(F.uses[a]) : isCopyToOrFromStack(F, UI) = Null

\* C4: when the recognizer matches no use of the in-out argument,
\* processInOutValue returns false and leaves every instruction and every
\* operand of the function as it was.
C4_Conservation ==
  [][ (pc = "scan" /\ NoUseMatched(Fn, InOutArg)) =>
        /\ pc' \in {"M_ret", "U_ret"}
        /\ ret' = FALSE
        /\ Fn' = Fn ]_vars

C4_Witness ==
  /\ pc = "M_ret" /\ ret = FALSE
  /\ Fn.uses[InOutArg] # << >>
  /\ NoUseMatched(Fn, InOutArg)
  /\ Fn = orig

\* C5: a second run of the pass leaves the function as the first run left it.
C5_Idempotent ==
  (run = 2 /\ caller = "module") => Fn = first.Fn

\* C6: every operand of every instruction in the function refers to an
\* argument or to an instruction in the function, in every state, and an
\* alloc_stack leaves the function only when its use list is empty.
OperandsResolve(F) ==
  \A i \in Live(F) : \A s \in 1..Len(F.insts[i].ops) :
    F.insts[i].ops[s][1] \in Args \cup Live(F)

C6_StructurallyValid ==
  /\ [](FnEmpty \/ OperandsResolve(Fn))
  /\ [][ \A a \in Live(Fn) :
           (Fn.insts[a].kind = "alloc_stack" /\ a \notin Live(Fn'))
             => Fn.uses[a] = << >> ]_vars

C6_Witness ==
  /\ pc = "promote"
  /\ Alloc \in Live(Fn)
  /\ Live(Fn) # Live(pre.F)
  /\ \E UI \in AllocUses : RealUse(UI) /\ NowReferencesArg(UI)
  /\ ~use_empty(Fn, Alloc)

\* C7: every iteration of the promoter's loop leaves the allocation with
\* fewer uses, the loop is left, and the run of the pass ends.
C7_Terminates ==
  /\ [][ (pc = "promote" /\ pc' = "promote") =>
           Len(Fn'.uses[Alloc]) < Len(Fn.uses[Alloc]) ]_vars
  /\ (pc = "promote") ~> (pc # "promote")
  /\ <>(pc = "done")

C7_Witness ==
  /\ pc = "promote"
  /\ \E UI \in Range(Fn.uses[Alloc]) : \E UJ \in Range(Fn.uses[Alloc]) :
       UI[1] = UJ[1] /\ UI[2] # UJ[2]

InOutParams == {a \in Args : isIndirectInOut(convs[a])}

\* C8: at the end of a run over a function with a body, 'removed' has grown
\* by the number of promoted parameters and 'kept' by the number of other
\* in-out parameters; a counter changes only by one, only for an in-out
\* parameter, as the loop moves past it, and never decreases.
C8_Counters ==
  /\ []((pc = "done" /\ ~FnEmpty) =>
          /\ NumShadowsRemoved - runStart.removed = Cardinality(promoted)
          /\ NumShadowsKept - runStart.kept
               = Cardinality(InOutParams) - Cardinality(promoted))
  /\ [][ ~FnEmpty =>
         /\ NumShadowsRemoved' >= NumShadowsRemoved
         /\ NumShadowsKept' >= NumShadowsKept
         /\ \/ UNCHANGED counters
            \/ /\ NumShadowsRemoved' + NumShadowsKept'
                    = NumShadowsRemoved + NumShadowsKept + 1
               /\ arg + 1 \in InOutParams
               /\ arg' = arg + 1 ]_vars

C8_Witness ==
  /\ pc = "done" /\ run = 1
  /\ Cardinality(InOutParams) = 2
  /\ Cardinality(promoted) = 1
  /\ NumShadowsRemoved = 1 /\ NumShadowsKept = 1

\* C9: the transform unit leaves the function and changes the counters as
\* the module driver does, and neither takes the entry block, rewrites or
\* counts for a function without a body.
C9_EntryPointsAgree ==
  /\ (caller = "unit" /\ pc = "done") => EndOfRun = first
  /\ FnEmpty =>
       /\ ~ub
       /\ Fn = orig
       /\ NumShadowsRemoved = 0 /\ NumShadowsKept = 0

\* Scenario A: the allocation is used by autogenerated copies from and to
\* the argument, at least one each way, and by users of result 0 only.
ScenarioA ==
  /\ pre.Alloc # Null
  /\ \A UI \in AllocUses :
       \/ getResultNumber(get(pre.F, UI)) = 0
       \/ /\ pre.F.insts[getUser(UI)].kind = "copy_addr"
          /\ isAutoGenerated(pre.F.insts[getUser(UI)].loc)
          /\ pre.F.insts[getUser(UI)].ops
               \in { <<<<pre.InOutArg, 0>>, <<pre.Alloc, 1>>>>,
                     <<<<pre.Alloc, 1>>, <<pre.InOutArg, 0>>>> }
  /\ \E UI \in AllocUses :
       pre.F.insts[getUser(UI)].ops = <<<<pre.InOutArg, 0>>, <<pre.Alloc, 1>>>>
  /\ \E UI \in AllocUses :
       pre.F.insts[getUser(UI)].ops = <<<<pre.Alloc, 1>>, <<pre.InOutArg, 0>>>>
  /\ \E UI \in AllocUses : getResultNumber(get(pre.F, UI)) = 0

\* C10: after the promotion of a Scenario A shadow the allocation, its
\* result-0 users and both copies are out of the function, processInOutValue
\* returns true and 'removed' grows by one.
C10_ScenarioA ==
  /\ []((Returned /\ ScenarioA) =>
          /\ pre.Alloc \notin Live(Fn)
          /\ \A UI \in AllocUses : getUser(UI) \notin Live(Fn)
          /\ pc \in {"M_ret", "U_ret"} => ret = TRUE)
  /\ [][ (Returned /\ ScenarioA /\ pc \in {"M_ret", "U_ret"}) =>
           /\ NumShadowsRemoved' = NumShadowsRemoved + 1
           /\ NumShadowsKept' = NumShadowsKept ]_vars

C10_Witness ==
  /\ Returned /\ ScenarioA
  /\ pc = "M_args" /\ arg = pre.InOutArg
  /\ NumShadowsRemoved = 1
  /\ Cardinality(AllocUses) = 3

\* ------------------------------------------------------------------------
\* Scenario C: the allocation's address is wrapped by a mark_uninitialized
\* that is the destination of the autogenerated copy-in; the copy-out reads
\* the allocation directly; the other uses are users of result 0.
Wrappers == {m \in DOMAIN pre.F.insts :
               /\ pre.F.insts[m].kind = "mark_uninitialized"
               /\ pre.F.insts[m].ops = <<<<pre.Alloc, 1>>>>}

CopyInThrough(m) ==
  {c \in DOMAIN pre.F.insts :
     /\ pre.F.insts[c].kind = "copy_addr"
     /\ isAutoGenerated(pre.F.insts[c].loc)
     /\ pre.F.insts[c].ops = <<<<pre.InOutArg, 0>>, <<m, 0>>>>}

ScenarioC ==
  /\ pre.Alloc # Null
  /\ \E m \in Wrappers : CopyInThrough(m) # {}
  /\ \A UI \in AllocUses :
       \/ getResultNumber(get(pre.F, UI)) = 0
       \/ getUser(UI) \in Wrappers
       \/ /\ isAutoGenerated(pre.F.insts[getUser(UI)].loc)
          /\ pre.F.insts[getUser(UI)].ops
               = <<<<pre.Alloc, 1>>, <<pre.InOutArg, 0>>>>
  /\ \E UI \in AllocUses :
       pre.F.insts[getUser(UI)].ops = <<<<pre.Alloc, 1>>, <<pre.InOutArg, 0>>>>
  /\ \E UI \in AllocUses : getResultNumber(get(pre.F, UI)) = 0

\* C11: in Scenario C the recognizer returns the allocation through the
\* wrapper, and after the promotion the copy-in, the copy-out, the result-0
\* users and the allocation are all out of the function.
C11_ScenarioC ==
  (Returned /\ ScenarioC) =>
    /\ pre.Alloc \notin Live(Fn)
    /\ \A m \in Wrappers : \A c \in CopyInThrough(m) : c \notin Live(Fn)
    /\ \A UI \in AllocUses :
         getUser(UI) \notin Wrappers => getUser(UI) \notin Live(Fn)

\* What the promotion of a Scenario C shadow leaves: the wrapper, now of the
\* argument, and the copy-in, now a copy of the argument onto itself.
C11_CopyInLeft ==
  /\ Returned /\ ScenarioC
  /\ \E m \in Wrappers : \E c \in CopyInThrough(m) :
       /\ {m, c} \subseteq Live(Fn)
       /\ Fn.insts[m].ops = <<<<pre.InOutArg, 0>>>>
       /\ Fn.insts[c] = pre.F.insts[c]

\* ------------------------------------------------------------------------
\* Scenario D: the redirect of line 72.

\* The user of UI is in the function as promoteShadow found it, but for the
\* slot UI, which holds the argument.
OnlySlotChanged(UI) ==
  /\ getUser(UI) \in Live(Fn)
  /\ Fn.insts[getUser(UI)] =
       [pre.F.insts[getUser(UI)]
          EXCEPT !.ops[getOperandNumber(UI) + 1] = <<pre.InOutArg, 0>>]

\* C12 as stated: every use of the address that is not a use of result 0 and
\* not a copy to or from the argument has its slot set to the argument, and
\* its user stays, kind and other slots as they were.
C12_AsStated ==
  Returned => \A UI \in AllocUses : RealUse(UI) => OnlySlotChanged(UI)

\* One iteration that takes the branch of line 72 writes one operand slot.
RedirectStep ==
  (/\ pc = "promote" /\ ~use_empty(Fn, Alloc)
   /\ getResultNumber(get(Fn, Use)) # 0
   /\ ~IsCopyWithArg(Fn, User, InOutArg))
  => /\ Live(Fn') = Live(Fn)
     /\ Fn'.insts =
          [Fn.insts EXCEPT ![User].ops[getOperandNumber(Use) + 1]
                             = <<InOutArg, 0>>]
     /\ \A v \in DOMAIN Fn.uses \ {Alloc, InOutArg} :
          Fn'.uses[v] = Fn.uses[v]

\* C12, amended: the iteration that redirects a use writes that operand slot
\* only, and when promoteShadow returns the user is in the function with
\* nothing but that slot changed, unless it was a copy_addr of the
\* allocation onto itself, which is erased.
C12_Redirect ==
  /\ [](Returned =>
          \A UI \in AllocUses :
            RealUse(UI) =>
              IF SelfCopy(UI) THEN getUser(UI) \notin Live(Fn)
                              ELSE OnlySlotChanged(UI))
  /\ [][RedirectStep]_vars

\* A redirected copy_addr whose other slot is another value, next to a
\* redirected one-operand user.
C12_Witness ==
  /\ Returned
  /\ \E UI \in AllocUses :
       /\ RealUse(UI) /\ OnlySlotChanged(UI)
       /\ Len(pre.F.insts[getUser(UI)].ops) = 2
  /\ \E UI \in AllocUses :
       /\ RealUse(UI) /\ OnlySlotChanged(UI)
       /\ Len(pre.F.insts[getUser(UI)].ops) = 1

\* ------------------------------------------------------------------------
\* One promotion per call of processInOutValue.

\* The positions in the argument's use list the recognizer matches.
Matching(F, a) ==
  {k \in 1..Len(F.uses[a]) : isCopyToOrFromStack(F, F.uses[a][k]) # Null}

Min(S) == CHOOSE x \in S : \A y \in S : x <= y

StackAllocations(F) == {i \in Live(F) : F.insts[i].kind = "alloc_stack"}

\* The allocations other than the promoted one that a use of the argument
\* matched when the promoter was called.
AlsoMatched ==
  {isCopyToOrFromStack(pre.F, pre.F.uses[pre.InOutArg][k]) :
     k \in Matching(pre.F, pre.InOutArg)} \ {pre.Alloc}

\* C13: processInOutValue hands the promoter the allocation of the first use,
\* in use-list order, that the recognizer matches; when the promoter is done
\* it returns true at once, the scan is not resumed; of the stack
\* allocations only the promoted one has left the function, so a second
\* allocation copied from the same argument is still there.
C13_OnePromotionPerCall ==
  /\ [][ /\ (pc = "scan" /\ pc' = "promote") =>
              /\ Matching(Fn, InOutArg) # {}
              /\ Alloc' = isCopyToOrFromStack(Fn,
                            Fn.uses[InOutArg][Min(Matching(Fn, InOutArg))])
         /\ (pc = "promote" /\ pc' # "promote") =>
              /\ pc' \in {"M_ret", "U_ret"} /\ ret' = TRUE
              /\ Alloc \notin Live(Fn')
         /\ pc' = "scan" => pc \in {"M_args", "U_args"} ]_vars
  /\ [](Returned =>
          /\ StackAllocations(pre.F) \ StackAllocations(Fn) = {pre.Alloc}
          /\ AlsoMatched \subseteq StackAllocations(Fn))

\* A call that promoted one allocation and returned while a second one,
\* matched by a later use of the same argument, is still in the function.
C13_Witness ==
  /\ Returned /\ pc \in {"M_ret", "U_ret"} /\ ret = TRUE
  /\ AlsoMatched # {}
  /\ \E b \in AlsoMatched :
       \E k \in 1..Len(Fn.uses[pre.InOutArg]) :
         isCopyToOrFromStack(Fn, Fn.uses[pre.InOutArg][k]) = b

\* ------------------------------------------------------------------------
\* The recognizer on its own.  isCopyToOrFromStack takes any operand, so it
\* is given functions a well-typed body does not contain as well: a copy_addr
\* or mark_uninitialized of result 0 of the allocation, and wrappers of
\* wrappers.  Each function has one use of the argument p.

RecognizerValues == {A1, A0, B1, Q, MU}

RecognizerConsumers ==
  {Inst("copy_addr", <<P, X>>, l) :
     X \in RecognizerValues, l \in {"auto", "file", "user"}}
  \cup {Inst("copy_addr", <<X, P>>, l) :
          X \in RecognizerValues, l \in {"auto", "file", "user"}}
  \cup {Inst("load", <<P>>, "user")}

\* n wrappers, the first of the value base, each next one of the one before.
WrapperChain(n, base) ==
  [i \in 1..n |-> Inst("mark_uninitialized",
                       <<(IF i = 1 THEN base ELSE MU)>>, "user")]

RecognizerBodies ==
  {b \in {WrapperChain(n, base) \o <<c>> :
            n \in 0..(MaxBody - 1), base \in {A1, A0},
            c \in RecognizerConsumers} : WellFormedBody(b)}

RecognizerInit ==
  /\ FnEmpty = FALSE
  /\ Fn \in {BuildFn(b) : b \in RecognizerBodies}
  /\ convs = [a \in Args |-> "inout"]
  /\ caller = "module" /\ pc = "query"
  /\ arg = 0
  /\ InOutArg = Id.p
  /\ Alloc = Null
  /\ ret = FALSE
  /\ NumShadowsRemoved = 0
  /\ NumShadowsKept = 0
  /\ ub = FALSE
  /\ run = 1
  /\ orig = Fn
  /\ pre = NoCall
  /\ runStart = [removed |-> 0, kept |-> 0]
  /\ promoted = {}
  /\ first = [Fn |-> Fn, removed |-> 0, kept |-> 0]

\* line 106 with a stack allocation: ASI of line 122 is that allocation.
isCopyToOrFromStack_Found ==
  /\ pc = "query"
  /\ isCopyToOrFromStack(Fn, use_begin(Fn, InOutArg)) # Null
  /\ Alloc' = isCopyToOrFromStack(Fn, use_begin(Fn, InOutArg))
  /\ pc' = "answered"
  /\ UNCHANGED <<ir, caller, arg, InOutArg, ret, counters, ub, run, hist>>

\* lines 89, 95, 106: null is returned.
isCopyToOrFromStack_Null ==
  /\ pc = "query"
  /\ isCopyToOrFromStack(Fn, use_begin(Fn, InOutArg)) = Null
  /\ Alloc' = Null
  /\ pc' = "answered"
  /\ UNCHANGED <<ir, caller, arg, InOutArg, ret, counters, ub, run, hist>>

RecognizerNext ==
  \/ isCopyToOrFromStack_Found
  \/ isCopyToOrFromStack_Null

RecognizerSpec == RecognizerInit /\ [][RecognizerNext]_vars

\* The copy's operand that is not the use UI.
OtherOperand(F, UI) ==
  IF getOperandNumber(UI) = 0 THEN getDest(F.insts[getUser(UI)])
                              ELSE getSrc(F.insts[getUser(UI)])

\* V is result r of the allocation a, or the one wrapper of it.
ReachesResult(F, V, a, r) ==
  \/ V = <<a, r>>
  \/ /\ IsInst(F, V, "mark_uninitialized")
     /\ F.insts[V[1]].ops[1] = <<a, r>>

\* The user of UI is a copy_addr that passes the gate of line 94.
GatedCopy(F, UI) ==
  /\ F.insts[getUser(UI)].kind = "copy_addr"
  /\ \/ isAutoGenerated(F.insts[getUser(UI)].loc)
     \/ isSILFileLocation(F.insts[getUser(UI)].loc)

C14_EitherResult ==
  pc = "answered" =>
    /\ Fn = orig
    /\ \A a \in StackAllocations(Fn) :
         Alloc = a <=>
           /\ GatedCopy(Fn, use_begin(Fn, InOutArg))
           /\ \E r \in {0, 1} :
                ReachesResult(Fn, OtherOperand(Fn, use_begin(Fn, InOutArg)),
                              a, r)
    /\ Alloc \in StackAllocations(Fn) \cup {Null}

\* ------------------------------------------------------------------------
\* The order of the parameters.  promoteShadow and processInOutValue as
\* functions of the function body, and the parameter loop of lines 153-164
\* taken in a given order.

RECURSIVE promoteShadow(_, _, _)
promoteShadow(F, a, inOutArg) ==
  IF use_empty(F, a) THEN eraseFromParent(F, a)
  ELSE IF getResultNumber(get(F, use_begin(F, a))) = 0
    THEN promoteShadow(eraseFromParent(F, getUser(use_begin(F, a))),
                       a, inOutArg)
  ELSE IF IsCopyWithArg(F, getUser(use_begin(F, a)), inOutArg)
    THEN promoteShadow(eraseFromParent(F, getUser(use_begin(F, a))),
                       a, inOutArg)
  ELSE promoteShadow(set(F, use_begin(F, a), <<inOutArg, 0>>), a, inOutArg)

processInOutValue(F, inOutArg) ==
  IF ScanUses(F, F.uses[inOutArg], 1) # Null
    THEN [F |-> promoteShadow(F, ScanUses(F, F.uses[inOutArg], 1), inOutArg),
          ret |-> TRUE]
    ELSE [F |-> F, ret |-> FALSE]

RECURSIVE ProcessInOrder(_, _, _, _)
ProcessInOrder(S, cv, order, k) ==
  IF k > Len(order) THEN S
  ELSE IF ~isIndirectInOut(cv[order[k]]) THEN ProcessInOrder(S, cv, order, k + 1)
  ELSE LET r == processInOutValue(S.Fn, order[k])
       IN  ProcessInOrder(
             [Fn |-> r.F,
              removed |-> S.removed + (IF r.ret THEN 1 ELSE 0),
              kept |-> S.kept + (IF r.ret THEN 0 ELSE 1)],
             cv, order, k + 1)

Orders == {o \in [1..NumParams -> Args] : \A i, j \in 1..NumParams :
                                            o[i] = o[j] => i = j}

\* The function and the counters before the run.
AsReceived == [Fn |-> orig, removed |-> 0, kept |-> 0]

Declared == [i \in 1..NumParams |-> i]

\* The first run of the module driver is over.
FirstRunDone == pc = "done" /\ run = 1 /\ caller = "module" /\ ~FnEmpty

\* The loop taken in the declared order is the run of the pass.
DeclaredOrderIsTheRun ==
  FirstRunDone =>
    ProcessInOrder(AsReceived, convs, Declared, 1)
      = [Fn |-> Fn, removed |-> NumShadowsRemoved, kept |-> NumShadowsKept]

\* C15: whatever the order the in-out parameters are processed in, the
\* function and the counters come out as the pass leaves them.
C15_OrderIrrelevant ==
  FirstRunDone =>
    \A o \in Orders :
      ProcessInOrder(AsReceived, convs, o, 1)
        = [Fn |-> Fn, removed |-> NumShadowsRemoved, kept |-> NumShadowsKept]

\* ------------------------------------------------------------------------
\* The frame of a promotion.

\* The instructions with an operand that referenced the allocation when
\* promoteShadow was called.
DirectUsers == {getUser(UI) : UI \in AllocUses}

\* The copies that reach the allocation through a wrapper only.
ThroughWrapperOnly ==
  {c \in Live(pre.F) \ DirectUsers :
     /\ pre.F.insts[c].kind = "copy_addr"
     /\ \E m \in Wrappers : \E s \in 1..2 : pre.F.insts[c].ops[s] = <<m, 0>>}

\* C16: from the call of promoteShadow on, an instruction that was neither
\* the allocation nor one of its direct users is in the function with the
\* operands it had, a copy of a wrapper of the allocation included; no
\* instruction is added, and the argument values are the ones there were.
C16_Frame ==
  pre.Alloc # Null =>
    /\ \A i \in Live(pre.F) \ (DirectUsers \cup {pre.Alloc}) :
         i \in Live(Fn) /\ Fn.insts[i] = pre.F.insts[i]
    /\ Live(Fn) \subseteq Live(pre.F)
    /\ DOMAIN Fn.uses \ Live(Fn) = Args
    /\ DOMAIN pre.F.uses \ Live(pre.F) = Args

\* A promotion is over that erased direct users, redirected the wrapper and
\* left the copy of the wrapper alone.
C16_Witness ==
  /\ Returned
  /\ ThroughWrapperOnly # {}
  /\ \A c \in ThroughWrapperOnly :
       c \in Live(Fn) /\ Fn.insts[c] = pre.F.insts[c]
  /\ \E i \in DirectUsers : i \notin Live(Fn)
  /\ \E m \in Wrappers : m \in Live(Fn) /\ Fn.insts[m] # pre.F.insts[m]

====
